---- MODULE Spec2Model ----
(***************************************************************************)
(* Model of copy-docker-image (src/main.go): copying one image (manifest   *)
(* and layers) from a source registry to a destination registry, with the  *)
(* ECR credential exchange done by connectToRegistry.                      *)
(*                                                                         *)
(* Strings the program inspects character by character (registry URLs,     *)
(* base64 tokens) are sequences of one-character strings; the bytes of a   *)
(* decoded token are integers (58 is ":").                                 *)
(***************************************************************************)
EXTENDS Integers, Sequences, FiniteSets, TLC

\* ------------------------------------------------------------------ bounds
MaxLayers == 2

\* how many times the program is run against the same two registries
MaxRuns == 2

\* ------------------------------------------------------- character classes
Digit == {"0", "1", "2", "3", "4", "5", "6", "7", "8", "9"}

Lower == {"a", "b", "c", "d", "e", "f", "g", "h", "i", "j", "k", "l", "m",
          "n", "o", "p", "q", "r", "s", "t", "u", "v", "w", "x", "y", "z"}

Upper == {"A", "B", "C", "D", "E", "F", "G", "H", "I", "J", "K", "L", "M",
          "N", "O", "P", "Q", "R", "S", "T", "U", "V", "W", "X", "Y", "Z"}

\* the class [\w\d-] of the region group
RegionChar == Digit \cup Lower \cup Upper \cup {"_", "-"}

\* the literal \.dkr\.ecr\. of the pattern
LitDkrEcr == <<".", "d", "k", "r", ".", "e", "c", "r", ".">>

\* the literal \.amazonaws\.com of the pattern
LitAmazonaws == <<".", "a", "m", "a", "z", "o", "n", "a", "w", "s", ".", "c", "o", "m">>

\* the repetition count {12} of the account id group
AccountIdLen == 12

\* ------------------------------------------------- the regular expression
HasLiteralAt(s, i, lit) ==
    /\ i + Len(lit) - 1 <= Len(s)
    /\ \A k \in 1..Len(lit) : s[i + k - 1] = lit[k]

\* last index of the maximal run of region characters starting at i (i-1 if none)
RECURSIVE RunEnd(_, _)
RunEnd(s, i) ==
    IF i <= Len(s) /\ s[i] \in RegionChar THEN RunEnd(s, i + 1) ELSE i - 1

\* the pattern matches with its first character at index i
MatchAt(s, i) ==
    /\ i + AccountIdLen - 1 <= Len(s)
    /\ \A k \in i..(i + AccountIdLen - 1) : s[k] \in Digit
    /\ HasLiteralAt(s, i + AccountIdLen, LitDkrEcr)
    /\ LET rs == i + AccountIdLen + Len(LitDkrEcr)
           re == RunEnd(s, rs)
       IN  /\ re >= rs
           /\ HasLiteralAt(s, re + 1, LitAmazonaws)

\* r.FindAllStringSubmatch(url, -1), reduced to what the code reads of it:
\* whether r2 is non-nil, and r2[0][1], r2[0][2] of the leftmost match
FindAllStringSubmatch(s) ==
    IF \E i \in 1..Len(s) : MatchAt(s, i)
    THEN LET i  == CHOOSE j \in 1..Len(s) :
                       MatchAt(s, j) /\ \A h \in 1..(j - 1) : ~MatchAt(s, h)
             rs == i + AccountIdLen + Len(LitDkrEcr)
         IN  [matched    |-> TRUE,
              registryId |-> SubSeq(s, i, i + AccountIdLen - 1),
              region     |-> SubSeq(s, rs, RunEnd(s, rs))]
    ELSE [matched |-> FALSE, registryId |-> <<>>, region |-> <<>>]

\* ------------------------------------------------------------------ base64
B64Chars ==
    <<"A", "B", "C", "D", "E", "F", "G", "H", "I", "J", "K", "L", "M",
      "N", "O", "P", "Q", "R", "S", "T", "U", "V", "W", "X", "Y", "Z",
      "a", "b", "c", "d", "e", "f", "g", "h", "i", "j", "k", "l", "m",
      "n", "o", "p", "q", "r", "s", "t", "u", "v", "w", "x", "y", "z",
      "0", "1", "2", "3", "4", "5", "6", "7", "8", "9", "+", "/">>

IsB64Char(c) == \E i \in 1..Len(B64Chars) : B64Chars[i] = c

\* the 6-bit value of an alphabet character; the padding character counts 0
B64Val(c) ==
    IF IsB64Char(c) THEN (CHOOSE i \in 1..Len(B64Chars) : B64Chars[i] = c) - 1 ELSE 0

\* base64.StdEncoding.DecodeString: padded standard alphabet, four characters
\* to three bytes, an error on a character outside the alphabet or on a
\* length that is not a whole number of padded quanta
DecodeString(s) ==
    LET n     == Len(s)
        pad   == IF n >= 2 /\ s[n] = "=" /\ s[n - 1] = "=" THEN 2
                 ELSE IF n >= 1 /\ s[n] = "=" THEN 1 ELSE 0
        valid == /\ n % 4 = 0
                 /\ \A k \in 1..(n - pad) : IsB64Char(s[k])
        m     == (n \div 4) * 3 - pad
        Quantum(q) == B64Val(s[4 * q + 1]) * 262144 + B64Val(s[4 * q + 2]) * 4096
                      + B64Val(s[4 * q + 3]) * 64 + B64Val(s[4 * q + 4])
        Byte(k) == LET v == Quantum((k - 1) \div 3)
                       r == (k - 1) % 3
                   IN  IF r = 0 THEN v \div 65536
                       ELSE IF r = 1 THEN (v \div 256) % 256
                       ELSE v % 256
    IN  IF valid THEN [err |-> FALSE, bytes |-> [k \in 1..m |-> Byte(k)]]
        ELSE [err |-> TRUE, bytes |-> <<>>]

\* the byte ":"
Colon == 58

\* strings.Split(s, ":"): every piece between separators, at least one piece
RECURSIVE Split(_)
Split(s) ==
    IF \E i \in 1..Len(s) : s[i] = Colon
    THEN LET i == CHOOSE j \in 1..Len(s) :
                      s[j] = Colon /\ \A h \in 1..(j - 1) : s[h] # Colon
         IN  <<SubSeq(s, 1, i - 1)>> \o Split(SubSeq(s, i + 1, Len(s)))
    ELSE <<s>>


\* ---------------------------------------------------------- input domains
\* account id of the managed registry used as input
AccountId == <<"1", "2", "3", "4", "5", "6", "7", "8", "9", "0", "1", "2">>

RegionUsEast1 == <<"u", "s", "-", "e", "a", "s", "t", "-", "1">>

\* 123456789012.dkr.ecr.us-east-1.amazonaws.com
UrlEcr == AccountId \o LitDkrEcr \o RegionUsEast1 \o LitAmazonaws

\* 23456789012.dkr.ecr.us-east-1.amazonaws.com: one digit short of an account id
UrlElevenDigits == Tail(UrlEcr)

\* 123456789012.dkr.ecr..amazonaws.com: no region
UrlNoRegion == AccountId \o LitDkrEcr \o Tail(LitAmazonaws)

\* reg.io
UrlPlain == <<"r", "e", "g", ".", "i", "o">>

\* https://123456789012.dkr.ecr.us-east-1.amazonaws.com
UrlProxy == <<"h", "t", "t", "p", "s", ":", "/", "/">> \o UrlEcr

Urls == {UrlEcr, UrlElevenDigits, UrlNoRegion, UrlPlain}

\* base64 tokens: "u:p", "u:p:q", "u", "u:", ":p", and two that do not decode
TokUP == <<"d", "T", "p", "w">>

TokUPQ == <<"d", "T", "p", "w", "O", "n", "E", "=">>

TokU == <<"d", "Q", "=", "=">>

TokUColon == <<"d", "T", "o", "=">>

TokColonP == <<"O", "n", "A", "=">>

TokShort == <<"d", "T", "p">>

TokBadChar == <<"d", "T", "!", "w">>

Tokens == {TokUP, TokUPQ, TokU, TokUColon, TokColonP, TokShort, TokBadChar}

\* a *string field of a response: nil or a value
NilString == [nil |-> TRUE, val |-> <<>>]

Ptr(v) == [nil |-> FALSE, val |-> v]

\* the responses GetAuthorizationToken may give when it reports no error
Responses ==
    {[AuthorizationData |-> <<>>]}
    \cup {[AuthorizationData |-> <<[AuthorizationToken |-> NilString, ProxyEndpoint |-> Ptr(UrlProxy)]>>]}
    \cup {[AuthorizationData |-> <<[AuthorizationToken |-> Ptr(TokUP), ProxyEndpoint |-> NilString]>>]}
    \cup {[AuthorizationData |-> <<[AuthorizationToken |-> Ptr(t), ProxyEndpoint |-> Ptr(UrlProxy)]>>] : t \in Tokens}

Digests == {"d1", "d2"}

\* the bytes a source registry serves for a digest
Blob(d) == IF d = "d1" THEN <<1, 2>> ELSE <<3>>

RECURSIVE SeqsUpTo(_, _)
SeqsUpTo(S, n) ==
    IF n = 0 THEN {<<>>}
    ELSE LET shorter == SeqsUpTo(S, n - 1)
         IN  shorter \cup {Append(q, x) : q \in {r \in shorter : Len(r) = n - 1}, x \in S}

\* the layer sequences an image may have
LayerSeqs == SeqsUpTo(Digests, MaxLayers)

\* ------------------------------------------------------------------- state
VARIABLES
    pc,          \* position of the single thread of control
    srcArgs,     \* RepositoryArguments of the source: RegistryURL, Repository, Tag
    destArgs,    \* RepositoryArguments of the destination
    repoArg,     \* --repo
    tagArg,      \* --tag
    exitCode,    \* main's exitCode, read by the deferred os.Exit
    panicking,   \* a run-time panic is unwinding main
    role,        \* which connectToRegistry call is running: "src" or "dest"
    conn,        \* locals of connectToRegistry
    connErr,     \* error returned by connectToRegistry
    srcHub,      \* main's srcHub
    destHub,     \* main's destHub
    manifest,    \* manifest fetched from the source
    destManifest,\* manifest built for the destination
    layerIdx,    \* index of the range loop over manifest.FSLayers
    mig,         \* locals of migrateLayer and moveLayerUsingFile
    srcImage,    \* layer digests of the image the source repository holds
    destLayers,  \* digests the destination repository holds
    destAtStart, \* digests the destination repository held when the process started
    tmpFiles,    \* temp files ever created: whether each still exists, and its bytes
    handles,     \* open file handles and streams
    trace        \* every call made outside the program and every return of migrateLayer

vars == <<pc, srcArgs, destArgs, repoArg, tagArg, exitCode, panicking, role, conn,
          connErr, srcHub, destHub, manifest, destManifest, layerIdx, mig,
          srcImage, destLayers, destAtStart, tmpFiles, handles, trace>>

argVars == <<srcArgs, destArgs, repoArg, tagArg, srcImage, destAtStart>>

connVars == <<role, conn, connErr, srcHub, destHub>>

layerVars == <<manifest, destManifest, layerIdx, mig, destLayers, tmpFiles, handles>>

\* ----------------------------------------------------------------- values
\* an error returned by a call outside the program: the call, and the values its
\* text names
LibErr(op, names) == [op |-> op, names |-> names]

\* the texts an error of a registry call about a layer may have: the program does
\* not write them, and they may or may not name the digest
LayerErrNames(digest) == {<<>>, <<digest>>}

NoErr == [set |-> FALSE, msg |-> "", ctx |-> <<>>, cause |-> LibErr("", <<>>)]

\* fmt.Errorf(msg, ctx..., err): the message, the values formatted into it and the
\* error it wraps
Errorf(msg, ctx, cause) == [set |-> TRUE, msg |-> msg, ctx |-> ctx, cause |-> cause]

NoHub == [set |-> FALSE, URL |-> <<>>, Username |-> <<>>, Password |-> <<>>]

NoManifest == [set |-> FALSE, Name |-> "", Tag |-> "", FSLayers |-> <<>>]

NoConn == [origUrl |-> <<>>, url |-> <<>>, username |-> <<>>, password |-> <<>>,
           registryId |-> <<>>, region |-> <<>>,
           resp |-> [AuthorizationData |-> <<>>], decoded |-> <<>>]

NoMig == [layerDigest |-> "", hasLayer |-> FALSE, tempFile |-> 0, err |-> NoErr,
          synced |-> FALSE, closeFailed |-> FALSE, syncFailed |-> FALSE]

Ev(op, hub, a, ok) == [op |-> op, hub |-> hub, a |-> a, ok |-> ok]

Log(e) == trace' = Append(trace, e)

Printf(msg) == Ev("Printf", "stdout", [msg |-> msg], TRUE)


\* ------------------------------------------------------- the command line
\* the flag values after kingpin.Parse() and what the two registries hold: runs
\* that vary the repository and tag flags, runs that vary the two registry URLs,
\* and runs that vary the image and what the destination already holds
Inputs ==
    [srcUrl : {UrlEcr}, srcRepo : {"", "app"}, srcTag : {"", "v1"},
     destUrl : {UrlPlain}, destRepo : {"", "app2"}, destTag : {"", "v2"},
     repo : {"", "img"}, tag : {"latest"},
     srcImage : {<<"d1", "d2">>}, destLayers : {{"d1"}}]
    \cup
    [srcUrl : Urls, srcRepo : {"app"}, srcTag : {""},
     destUrl : Urls, destRepo : {""}, destTag : {""},
     repo : {"img"}, tag : {"latest"},
     srcImage : {<<"d1">>}, destLayers : {{}}]
    \cup
    [srcUrl : {UrlPlain}, srcRepo : {"app"}, srcTag : {""},
     destUrl : {UrlPlain}, destRepo : {"app2"}, destTag : {""},
     repo : {""}, tag : {"latest"},
     srcImage : LayerSeqs, destLayers : SUBSET Digests]

Init ==
    \E in \in Inputs :
        /\ pc = "defaults"
        /\ srcArgs = [RegistryURL |-> in.srcUrl, Repository |-> in.srcRepo, Tag |-> in.srcTag]
        /\ destArgs = [RegistryURL |-> in.destUrl, Repository |-> in.destRepo, Tag |-> in.destTag]
        /\ repoArg = in.repo
        /\ tagArg = in.tag
        /\ exitCode = 0
        /\ panicking = FALSE
        /\ role = "src"
        /\ conn = NoConn
        /\ connErr = NoErr
        /\ srcHub = NoHub
        /\ destHub = NoHub
        /\ manifest = NoManifest
        /\ destManifest = NoManifest
        /\ layerIdx = 0
        /\ mig = NoMig
        /\ srcImage = in.srcImage
        /\ destLayers = in.destLayers
        /\ destAtStart = in.destLayers
        /\ tmpFiles = <<>>
        /\ handles = {}
        /\ trace = <<>>

\* ---------------------------------------------------------------- main, 1
\* if *x == "" { x = fallback }
DefaultIfEmpty(v, fallback) == IF v = "" THEN fallback ELSE v

\* lines 184-196: --repo and --tag stand in for the empty per-side flags
ApplyDefaults ==
    /\ pc = "defaults"
    /\ srcArgs' = [srcArgs EXCEPT !.Repository = DefaultIfEmpty(@, repoArg),
                                  !.Tag = DefaultIfEmpty(@, tagArg)]
    /\ destArgs' = [destArgs EXCEPT !.Repository = DefaultIfEmpty(@, repoArg),
                                    !.Tag = DefaultIfEmpty(@, tagArg)]
    /\ pc' = "checkRepos"
    /\ UNCHANGED <<repoArg, tagArg, srcImage, destAtStart, exitCode, panicking, connVars,
                   layerVars, trace>>

RequiredRepoMissing_SrcOnly(srcRepo, destRepo) ==
    IF srcRepo = "" THEN "A source repository name is required either with --src-repo or --repo"
    ELSE ""

\* the message of the repository check that fails, "" when both names are given
RequiredRepoMissing(srcRepo, destRepo) ==
    IF srcRepo = "" THEN "A source repository name is required either with --src-repo or --repo"
    ELSE IF destRepo = "" THEN "A destination repository name is required either with --dest-repo or --repo"
    ELSE ""

\* lines 198-210: both repository names are required; then connect to the source
CheckRepos ==
    /\ pc = "checkRepos"
    /\ LET missing == RequiredRepoMissing(srcArgs.Repository, destArgs.Repository)
       IN  IF missing # ""
           THEN /\ Log(Printf(missing))
                /\ exitCode' = -1
                /\ pc' = "deferred"
                /\ UNCHANGED role
           ELSE /\ pc' = "connect"
                /\ role' = "src"
                /\ UNCHANGED <<exitCode, trace>>
    /\ UNCHANGED <<argVars, panicking, conn, connErr, srcHub, destHub, layerVars>>

\* ------------------------------------------------------ connectToRegistry
ConnArgs == IF role = "src" THEN srcArgs ELSE destArgs

ConnReturn(err) ==
    /\ connErr' = err
    /\ pc' = "connected"

NeedsToken_Always(r2) == TRUE

\* if r2 != nil
NeedsToken(r2) == r2.matched

\* lines 118-128: the locals, the match of the URL against the pattern
ConnectMatch ==
    /\ pc = "connect"
    /\ LET origUrl == ConnArgs.RegistryURL
           r2 == FindAllStringSubmatch(origUrl)
       IN  /\ conn' = [NoConn EXCEPT !.origUrl = origUrl, !.url = origUrl,
                                     !.registryId = r2.registryId, !.region = r2.region]
           /\ pc' = IF NeedsToken(r2) THEN "newSession" ELSE "registryNew"
    /\ connErr' = NoErr
    /\ UNCHANGED <<argVars, exitCode, panicking, role, srcHub, destHub, layerVars, trace>>

\* lines 130-134: session.NewSession for the region
NewSession ==
    /\ pc = "newSession"
    /\ \E ok \in BOOLEAN :
        /\ Log(Ev("NewSession", role, [region |-> conn.region], ok))
        /\ IF ok THEN pc' = "getToken" /\ UNCHANGED connErr
           ELSE ConnReturn(Errorf("Failed to create new AWS SDK session.", <<>>, LibErr("NewSession", <<>>)))
    /\ UNCHANGED <<argVars, exitCode, panicking, role, conn, srcHub, destHub, layerVars>>

\* lines 135-145: svc.GetAuthorizationToken for the registry id
GetAuthorizationToken ==
    /\ pc = "getToken"
    /\ \/ /\ Log(Ev("GetAuthorizationToken", role,
                    [registryId |-> conn.registryId, region |-> conn.region], FALSE))
          /\ ConnReturn(Errorf("Failed to get ECR authorization token for registry",
                               <<conn.registryId>>, LibErr("GetAuthorizationToken", <<>>)))
          /\ UNCHANGED conn
       \/ \E resp \in Responses :
          /\ Log(Ev("GetAuthorizationToken", role,
                    [registryId |-> conn.registryId, region |-> conn.region], TRUE))
          /\ conn' = [conn EXCEPT !.resp = resp]
          /\ pc' = "decode"
          /\ UNCHANGED connErr
    /\ UNCHANGED <<argVars, exitCode, panicking, role, srcHub, destHub, layerVars>>

\* a run-time panic unwinds to main, whose deferred function then runs
Panic ==
    /\ panicking' = TRUE
    /\ pc' = "deferred"

\* line 147 indexes AuthorizationData[0] and dereferences its AuthorizationToken
TokenReadable(resp) ==
    /\ Len(resp.AuthorizationData) >= 1
    /\ ~resp.AuthorizationData[1].AuthorizationToken.nil

\* lines 147-150: the token is base64-decoded
DecodeToken ==
    /\ pc = "decode"
    /\ IF ~TokenReadable(conn.resp)
       THEN Panic /\ UNCHANGED <<conn, connErr>>
       ELSE LET d == DecodeString(conn.resp.AuthorizationData[1].AuthorizationToken.val)
            IN  IF d.err
                THEN /\ ConnReturn(Errorf("Failed to decode base64 encoded authorization data for ECR registry",
                                          <<conn.registryId>>, LibErr("DecodeString", <<>>)))
                     /\ UNCHANGED <<conn, panicking>>
                ELSE /\ conn' = [conn EXCEPT !.decoded = d.bytes]
                     /\ pc' = "split"
                     /\ UNCHANGED <<connErr, panicking>>
    /\ UNCHANGED <<argVars, exitCode, role, srcHub, destHub, layerVars, trace>>

\* line 154 dereferences ProxyEndpoint; line 156 indexes parts[1]
CredentialsReadable(resp, parts) ==
    /\ ~resp.AuthorizationData[1].ProxyEndpoint.nil
    /\ Len(parts) >= 2

\* password = parts[1]
PasswordOf(parts, decoded) == parts[2]

\* lines 152-156: the decoded token is split on ":", the proxy endpoint replaces the URL
SplitToken ==
    /\ pc = "split"
    /\ LET parts == Split(conn.decoded)
       IN  IF ~CredentialsReadable(conn.resp, parts)
           THEN Panic /\ UNCHANGED conn
           ELSE /\ conn' = [conn EXCEPT !.url = conn.resp.AuthorizationData[1].ProxyEndpoint.val,
                                         !.username = parts[1],
                                         !.password = PasswordOf(parts, conn.decoded)]
                /\ pc' = "registryNew"
                /\ UNCHANGED panicking
    /\ UNCHANGED <<argVars, exitCode, role, connErr, srcHub, destHub, layerVars, trace>>

\* lines 159-162: registry.New(url, username, password)
RegistryNew ==
    /\ pc = "registryNew"
    /\ \E ok \in BOOLEAN :
        /\ Log(Ev("New", role, [url |-> conn.url, username |-> conn.username,
                                password |-> conn.password], ok))
        /\ IF ok THEN pc' = "ping" /\ UNCHANGED connErr
           ELSE ConnReturn(Errorf("Failed to create registry connection for",
                                  <<conn.origUrl>>, LibErr("New", <<>>)))
    /\ UNCHANGED <<argVars, exitCode, panicking, role, conn, srcHub, destHub, layerVars>>

\* lines 164-169: registry.Ping()
Ping ==
    /\ pc = "ping"
    /\ \E ok \in BOOLEAN :
        /\ Log(Ev("Ping", role, [url |-> conn.url], ok))
        /\ IF ok THEN ConnReturn(NoErr)
           ELSE ConnReturn(Errorf("Failed to ping registry as a connection test.",
                                  <<conn.origUrl>>, LibErr("Ping", <<>>)))
    /\ UNCHANGED <<argVars, exitCode, panicking, role, conn, srcHub, destHub, layerVars>>


\* ---------------------------------------------------------------- main, 2
HubOf(c) == [set |-> TRUE, URL |-> c.url, Username |-> c.username, Password |-> c.password]

ConnectFailed_Never(err) == FALSE

\* if err != nil, after connectToRegistry
ConnectFailed(err) == err.set

\* lines 210-222: the result of connectToRegistry; the destination is connected
\* after the source
Connected ==
    /\ pc = "connected"
    /\ IF ConnectFailed(connErr)
       THEN /\ Log(Printf(IF role = "src"
                          THEN "Failed to establish a connection to the source registry."
                          ELSE "Failed to establish a connection to the destination registry."))
            /\ exitCode' = -1
            /\ pc' = "deferred"
            /\ UNCHANGED <<role, srcHub, destHub>>
       ELSE /\ IF role = "src"
               THEN /\ srcHub' = HubOf(conn)
                    /\ role' = "dest"
                    /\ pc' = "connect"
                    /\ UNCHANGED destHub
               ELSE /\ destHub' = HubOf(conn)
                    /\ pc' = "manifest"
                    /\ UNCHANGED <<role, srcHub>>
            /\ UNCHANGED <<exitCode, trace>>
    /\ UNCHANGED <<argVars, panicking, conn, connErr, layerVars>>

\* lines 224-229: srcHub.Manifest(repository, tag)
FetchManifest ==
    /\ pc = "manifest"
    /\ \/ /\ trace' = trace \o <<Ev("Manifest", "src", [repo |-> srcArgs.Repository,
                                                         tag |-> srcArgs.Tag,
                                                         result |-> NoManifest], FALSE),
                                  Printf("Failed to fetch the manifest for")>>
          /\ exitCode' = -1
          /\ pc' = "deferred"
          /\ UNCHANGED manifest
       \/ LET fetched == [set |-> TRUE, Name |-> srcArgs.Repository, Tag |-> srcArgs.Tag,
                          FSLayers |-> srcImage]
          IN
          /\ Log(Ev("Manifest", "src", [repo |-> srcArgs.Repository, tag |-> srcArgs.Tag,
                                        result |-> fetched], TRUE))
          /\ manifest' = fetched
          /\ pc' = "loop"
          /\ UNCHANGED exitCode
    /\ UNCHANGED <<argVars, panicking, connVars, destManifest, layerIdx, mig, destLayers,
                   tmpFiles, handles>>

\* line 231: the range loop takes the next layer and calls migrateLayer, or ends
NextLayer ==
    /\ pc = "loop"
    /\ IF layerIdx < Len(manifest.FSLayers)
       THEN /\ layerIdx' = layerIdx + 1
            /\ mig' = [NoMig EXCEPT !.layerDigest = manifest.FSLayers[layerIdx + 1]]
            /\ pc' = "hasLayer"
       ELSE /\ pc' = "buildManifest"
            /\ UNCHANGED <<layerIdx, mig>>
    /\ UNCHANGED <<argVars, exitCode, panicking, connVars, manifest, destManifest,
                   destLayers, tmpFiles, handles, trace>>

\* ------------------------------------------------------------ migrateLayer
MigrateReturn(err) ==
    /\ mig' = [mig EXCEPT !.err = err]
    /\ pc' = "layerReturn"

NeedsUpload_Always(hasLayer) == TRUE

NeedsUpload_Never(hasLayer) == FALSE

\* if !hasLayer
NeedsUpload(hasLayer) == ~hasLayer

\* lines 62-70 and 85-88: destHub.HasLayer(destRepo, layerDigest)
HasLayer ==
    /\ pc = "hasLayer"
    /\ \/ /\ Log(Ev("HasLayer", "dest", [repo |-> destArgs.Repository,
                                         digest |-> mig.layerDigest, present |-> FALSE], FALSE))
          /\ \E names \in LayerErrNames(mig.layerDigest) :
               MigrateReturn(Errorf("Failure while checking if the destination registry contained an image layer.",
                                    <<>>, LibErr("HasLayer", names)))
       \/ LET hasLayer == mig.layerDigest \in destLayers
          IN  /\ Log(Ev("HasLayer", "dest", [repo |-> destArgs.Repository,
                                             digest |-> mig.layerDigest,
                                             present |-> hasLayer], TRUE))
              /\ IF NeedsUpload(hasLayer)
                 THEN /\ mig' = [mig EXCEPT !.hasLayer = hasLayer]
                      /\ pc' = "tempFile"
                 ELSE /\ mig' = [mig EXCEPT !.hasLayer = hasLayer, !.err = NoErr]
                      /\ pc' = "layerReturn"
    /\ UNCHANGED <<argVars, exitCode, panicking, connVars, manifest, destManifest, layerIdx,
                   destLayers, tmpFiles, handles>>

\* lines 72-75: ioutil.TempFile("", "docker-image") creates and opens a new file
TempFile ==
    /\ pc = "tempFile"
    /\ \/ /\ Log(Ev("TempFile", "os", [file |-> 0], FALSE))
          /\ MigrateReturn(Errorf("Failure while creating temporary file for an image layer download.",
                                  <<>>, LibErr("TempFile", <<>>)))
          /\ UNCHANGED <<tmpFiles, handles>>
       \/ LET f == Len(tmpFiles) + 1
          IN  /\ Log(Ev("TempFile", "os", [file |-> f], TRUE))
              /\ tmpFiles' = Append(tmpFiles, [exists |-> TRUE, data |-> <<>>])
              /\ handles' = handles \cup {[kind |-> "tempWrite", file |-> f]}
              /\ mig' = [mig EXCEPT !.tempFile = f]
              /\ pc' = "download"
    /\ UNCHANGED <<argVars, exitCode, panicking, connVars, manifest, destManifest, layerIdx,
                   destLayers>>

\* ------------------------------------------------------ moveLayerUsingFile
MoveReturn(err) ==
    /\ mig' = [mig EXCEPT !.err = err]
    /\ pc' = "remove"

\* lines 36-39: srcHub.DownloadLayer(srcRepo, layerDigest)
DownloadLayer ==
    /\ pc = "download"
    /\ \E ok \in BOOLEAN :
        /\ Log(Ev("DownloadLayer", "src", [repo |-> srcArgs.Repository,
                                           digest |-> mig.layerDigest], ok))
        /\ IF ok
           THEN /\ handles' = handles \cup {[kind |-> "srcStream", file |-> mig.tempFile]}
                /\ pc' = "copy"
                /\ UNCHANGED mig
           ELSE /\ \E names \in LayerErrNames(mig.layerDigest) :
                     MoveReturn(Errorf("Failure while starting the download of an image layer.",
                                       <<>>, LibErr("DownloadLayer", names)))
                /\ UNCHANGED handles
    /\ UNCHANGED <<argVars, exitCode, panicking, connVars, manifest, destManifest, layerIdx,
                   destLayers, tmpFiles>>

CopyFailed_Ignored(ok) == FALSE

\* if err != nil, after io.Copy
CopyFailed(ok) == ~ok

AfterCopy_NoSync == "reopen"

\* a copy that succeeded is followed by lines 45-46
AfterCopy == "closeSync"

\* lines 41-44: io.Copy(file, srcImageReader); a failed copy leaves a prefix written
CopyToFile ==
    /\ pc = "copy"
    /\ LET blob == Blob(mig.layerDigest)
       IN  \E n \in 0..Len(blob) :
             LET ok == n = Len(blob)
             IN  /\ Log(Ev("Copy", "os", [file |-> mig.tempFile], ok))
                 /\ tmpFiles' = [tmpFiles EXCEPT ![mig.tempFile].data = SubSeq(blob, 1, n)]
                 /\ IF CopyFailed(ok)
                    THEN MoveReturn(Errorf("Failure while copying the image layer to a temp file.",
                                           <<>>, LibErr("Copy", <<>>)))
                    ELSE pc' = AfterCopy /\ UNCHANGED mig
    /\ UNCHANGED <<argVars, exitCode, panicking, connVars, manifest, destManifest, layerIdx,
                   destLayers, handles>>

\* what a later read of a file finds of the bytes written to it: all of them
\* after a Sync that succeeded; after a Sync that failed the bytes are not known
\* to have reached the file, and any prefix of them may be found
ReadableAfterSync(data, syncOk) ==
    IF syncOk THEN {data} ELSE {SubSeq(data, 1, n) : n \in 0..Len(data)}

\* lines 45-46: srcImageReader.Close() and file.Sync(), their results dropped
CloseAndSync ==
    /\ pc = "closeSync"
    /\ \E closeOk \in BOOLEAN, syncOk \in BOOLEAN :
        /\ mig' = [mig EXCEPT !.synced = TRUE, !.closeFailed = ~closeOk,
                              !.syncFailed = ~syncOk]
        /\ \E found \in ReadableAfterSync(tmpFiles[mig.tempFile].data, syncOk) :
             tmpFiles' = [tmpFiles EXCEPT ![mig.tempFile].data = found]
    /\ handles' = handles \ {[kind |-> "srcStream", file |-> mig.tempFile]}
    /\ pc' = "reopen"
    /\ UNCHANGED <<argVars, exitCode, panicking, connVars, manifest, destManifest, layerIdx,
                   destLayers, trace>>

\* lines 48-51: os.Open(file.Name())
Reopen ==
    /\ pc = "reopen"
    /\ \E ok \in BOOLEAN :
        /\ Log(Ev("Open", "os", [file |-> mig.tempFile], ok))
        /\ IF ok
           THEN /\ handles' = handles \cup {[kind |-> "tempRead", file |-> mig.tempFile]}
                /\ pc' = "upload"
                /\ UNCHANGED mig
           ELSE /\ MoveReturn(Errorf("Failed to open temporary image layer for uploading.",
                                     <<>>, LibErr("Open", <<>>)))
                /\ UNCHANGED handles
    /\ UNCHANGED <<argVars, exitCode, panicking, connVars, manifest, destManifest, layerIdx,
                   destLayers, tmpFiles>>

\* lines 52-58: destHub.UploadLayer(destRepo, layerDigest, imageReadStream), then
\* imageReadStream.Close()
UploadLayer ==
    /\ pc = "upload"
    /\ \E ok \in BOOLEAN :
        /\ Log(Ev("UploadLayer", "dest", [repo |-> destArgs.Repository,
                                          digest |-> mig.layerDigest,
                                          data |-> tmpFiles[mig.tempFile].data], ok))
        /\ IF ok
           THEN /\ destLayers' = destLayers \cup {mig.layerDigest}
                /\ MoveReturn(NoErr)
           ELSE /\ \E names \in LayerErrNames(mig.layerDigest) :
                     MoveReturn(Errorf("Failure while uploading the image.", <<>>,
                                       LibErr("UploadLayer", names)))
                /\ UNCHANGED destLayers
    /\ handles' = handles \ {[kind |-> "tempRead", file |-> mig.tempFile]}
    /\ UNCHANGED <<argVars, exitCode, panicking, connVars, manifest, destManifest, layerIdx,
                   tmpFiles>>


\* ------------------------------------------------- migrateLayer, the cleanup
ShouldRemove_OnSuccessOnly(err) == ~err.set

\* os.Remove(tempFile.Name()) follows moveLayerUsingFile whatever it returned
ShouldRemove(err) == TRUE

MigrateResult_RemoveErr(moveErr, removeOk) ==
    IF removeOk THEN moveErr ELSE Errorf("Failed to remove image layer temp file", <<>>, LibErr("Remove", <<>>))

\* return err: the result of moveLayerUsingFile, not that of os.Remove
MigrateResult(moveErr, removeOk) == moveErr

\* lines 78-84: the temp file is removed; a failed removal is printed only
Remove ==
    /\ pc = "remove"
    /\ IF ShouldRemove(mig.err)
       THEN \E ok \in BOOLEAN :
            /\ IF ok
               THEN /\ Log(Ev("Remove", "os", [file |-> mig.tempFile], TRUE))
                    /\ tmpFiles' = [tmpFiles EXCEPT ![mig.tempFile].exists = FALSE]
               ELSE /\ trace' = trace \o <<Ev("Remove", "os", [file |-> mig.tempFile], FALSE),
                                            Printf("Failed to remove image layer temp file")>>
                    /\ UNCHANGED tmpFiles
            /\ MigrateReturn(MigrateResult(mig.err, ok))
       ELSE /\ MigrateReturn(mig.err)
            /\ UNCHANGED <<tmpFiles, trace>>
    /\ UNCHANGED <<argVars, exitCode, panicking, connVars, manifest, destManifest, layerIdx,
                   destLayers, handles>>

\* ---------------------------------------------------------------- main, 3
AbortOnLayerError_Never(err) == FALSE

\* if err != nil, after migrateLayer
AbortOnLayerError(err) == err.set

\* lines 232-237: migrateLayer has returned; its error ends the run
LayerReturn ==
    /\ pc = "layerReturn"
    /\ LET returned == Ev("migrateLayer", "main",
                          [digest |-> mig.layerDigest, index |-> layerIdx, err |-> mig.err],
                          ~mig.err.set)
       IN  IF AbortOnLayerError(mig.err)
           THEN /\ trace' = trace \o <<returned, Printf("Failed to migrate image layer.")>>
                /\ exitCode' = -1
                /\ pc' = "deferred"
           ELSE /\ Log(returned)
                /\ pc' = "loop"
                /\ UNCHANGED exitCode
    /\ UNCHANGED <<argVars, panicking, connVars, layerVars>>

DestManifestOf_Fresh(m, name) == [NoManifest EXCEPT !.set = TRUE, !.Name = name]

\* &schema1.SignedManifest{Manifest: manifest.Manifest} with Name overwritten: a
\* copy of the embedded struct
DestManifestOf(m, name) == [m EXCEPT !.Name = name]

SourceAfterCopy_Aliased(m, name) == [m EXCEPT !.Name = name]

\* the source manifest after lines 240-244: the assignment to
\* destManifest.Manifest.Name writes the copy, the fetched object keeps its fields
SourceAfterCopy(m, name) == m

\* lines 240-244: the destination manifest
BuildDestManifest ==
    /\ pc = "buildManifest"
    /\ destManifest' = DestManifestOf(manifest, destArgs.Repository)
    /\ manifest' = SourceAfterCopy(manifest, destArgs.Repository)
    /\ pc' = "putManifest"
    /\ UNCHANGED <<argVars, exitCode, panicking, connVars, layerIdx, mig,
                   destLayers, tmpFiles, handles, trace>>

\* lines 246-250: destHub.PutManifest(repository, tag, destManifest)
PutManifest ==
    /\ pc = "putManifest"
    /\ LET call(ok) == Ev("PutManifest", "dest", [repo |-> destArgs.Repository,
                                                  tag |-> destArgs.Tag,
                                                  manifest |-> destManifest], ok)
       IN  \/ /\ Log(call(TRUE))
              /\ UNCHANGED exitCode
           \/ /\ trace' = trace \o <<call(FALSE), Printf("Failed to upload manifest to")>>
              /\ exitCode' = -1
    /\ pc' = "deferred"
    /\ UNCHANGED <<argVars, panicking, connVars, layerVars>>

\* the status the operating system keeps of os.Exit(code): its low eight bits
ExitStatus(code) == code % 256

\* lines 174-176: the deferred function, run when main returns and when a panic
\* unwinds it
DeferredExit ==
    /\ pc = "deferred"
    /\ Log(Ev("Exit", "os", [code |-> ExitStatus(exitCode)], TRUE))
    /\ pc' = "exited"
    /\ UNCHANGED <<argVars, exitCode, panicking, connVars, layerVars>>

Next ==
    \/ ApplyDefaults
    \/ CheckRepos
    \/ ConnectMatch
    \/ NewSession
    \/ GetAuthorizationToken
    \/ DecodeToken
    \/ SplitToken
    \/ RegistryNew
    \/ Ping
    \/ Connected
    \/ FetchManifest
    \/ NextLayer
    \/ HasLayer
    \/ TempFile
    \/ DownloadLayer
    \/ CopyToFile
    \/ CloseAndSync
    \/ Reopen
    \/ UploadLayer
    \/ Remove
    \/ LayerReturn
    \/ BuildDestManifest
    \/ PutManifest
    \/ DeferredExit

Spec == Init /\ [][Next]_vars


\* ------------------------------------------------------ reading the trace
Events == 1..Len(trace)

IsCall(k, op, hub) == trace[k].op = op /\ trace[k].hub = hub

\* the returns of migrateLayer recorded so far
Returns == {j \in Events : trace[j].op = "migrateLayer"}

\* the HasLayer call that opened the migrateLayer call returning at j
CallStart(j) ==
    CHOOSE h \in 1..j : /\ trace[h].op = "HasLayer"
                        /\ \A g \in (h + 1)..j : trace[g].op # "HasLayer"

\* the calls of op for a digest among the events from..to
LayerCalls(op, digest, from, to) ==
    {k \in from..to : trace[k].op = op /\ trace[k].a.digest = digest}

LayerOps == {"HasLayer", "DownloadLayer", "UploadLayer"}

Printed(msg) == \E k \in Events : trace[k].op = "Printf" /\ trace[k].a.msg = msg

Exited == pc = "exited"

\* ------------------------------------------------------------------ claims

\* C1: PutManifest is invoked only after migrateLayer has returned success for
\* every layer of the source manifest, and once a migrateLayer call has returned
\* an error no HasLayer, DownloadLayer, UploadLayer or PutManifest call follows.
C1_PublishOnlyAfterEveryLayer ==
    /\ \A k \in Events :
         trace[k].op = "PutManifest" =>
           \A i \in 1..Len(manifest.FSLayers) :
             \E j \in 1..(k - 1) : /\ trace[j].op = "migrateLayer"
                                   /\ trace[j].ok
                                   /\ trace[j].a.index = i
                                   /\ trace[j].a.digest = manifest.FSLayers[i]
    /\ \A j \in Returns :
         ~trace[j].ok =>
           \A k \in (j + 1)..Len(trace) : trace[k].op \notin LayerOps \cup {"PutManifest"}

\* the first of two layers failed and the process has exited
C1_Witness ==
    /\ Exited
    /\ Len(manifest.FSLayers) = 2
    /\ \E j \in Returns : ~trace[j].ok /\ trace[j].a.index = 1

\* C2: when HasLayer reports the digest present, the migrateLayer call makes no
\* DownloadLayer call, no UploadLayer call, creates no temp file and returns
\* success: the next thing that happens is its successful return.
C2_PresentLayerSkipped ==
    \A k \in Events :
      (trace[k].op = "HasLayer" /\ trace[k].ok /\ trace[k].a.present) =>
        IF k = Len(trace)
        THEN pc = "layerReturn" /\ ~mig.err.set /\ mig.tempFile = 0
        ELSE /\ trace[k + 1].op = "migrateLayer"
             /\ trace[k + 1].ok
             /\ trace[k + 1].a.digest = trace[k].a.digest

\* a present layer was skipped and its migrateLayer call has returned
C2_Witness ==
    \E k \in Events :
      /\ trace[k].op = "HasLayer" /\ trace[k].ok /\ trace[k].a.present
      /\ k < Len(trace)

\* C3 as stated: every migrateLayer call for a digest reported absent makes
\* exactly one DownloadLayer call and exactly one UploadLayer call.
C3_ExactlyOneTransfer ==
    \A j \in Returns :
      LET h == CallStart(j)
          d == trace[j].a.digest
      IN  (trace[h].ok /\ ~trace[h].a.present) =>
            /\ Cardinality(LayerCalls("DownloadLayer", d, h, j)) = 1
            /\ Cardinality(LayerCalls("UploadLayer", d, h, j)) = 1

\* C3 amended: a migrateLayer call for a digest reported absent makes at most one
\* DownloadLayer call and at most one UploadLayer call for it, the upload only
\* after a successful download, and exactly one of each when it returns success.
C3_AtMostOneTransfer ==
    \A j \in Returns :
      LET h  == CallStart(j)
          d  == trace[j].a.digest
          dl == LayerCalls("DownloadLayer", d, h, j)
          ul == LayerCalls("UploadLayer", d, h, j)
      IN  (trace[h].ok /\ ~trace[h].a.present) =>
            /\ Cardinality(dl) <= 1
            /\ Cardinality(ul) <= 1
            /\ \A u \in ul : \E k \in dl : k < u /\ trace[k].ok
            /\ trace[j].ok => (Cardinality(dl) = 1 /\ Cardinality(ul) = 1)

\* an absent layer has been transferred and its migrateLayer call returned success
C3_Witness ==
    \E j \in Returns :
      /\ trace[j].ok
      /\ trace[CallStart(j)].ok
      /\ ~trace[CallStart(j)].a.present

\* C4: a migrateLayer call that created a temp file attempts its removal exactly
\* once before it returns, whatever moveLayerUsingFile returned, and the file
\* exists afterwards only if that removal failed.
C4_TempFileRemovedOnce ==
    \A j \in Returns :
      \A t \in CallStart(j)..j :
        (trace[t].op = "TempFile" /\ trace[t].ok) =>
          LET f       == trace[t].a.file
              removes == {k \in Events : trace[k].op = "Remove" /\ trace[k].a.file = f}
          IN  /\ Cardinality(removes) = 1
              /\ \A k \in removes : t < k /\ k < j
              /\ tmpFiles[f].exists => \A k \in removes : ~trace[k].ok

\* an upload failed and migrateLayer has returned with the temp file gone
C4_Witness ==
    \E j \in Returns :
      /\ ~trace[j].ok
      /\ trace[j].a.err.cause.op = "UploadLayer"
      /\ \E f \in 1..Len(tmpFiles) : ~tmpFiles[f].exists

\* C5: the manifest passed to PutManifest has the layer sequence of the manifest
\* fetched from the source and differs from it only in its name, which is the
\* destination repository name.
C5_ManifestReaddressed ==
    \A k \in Events :
      trace[k].op = "PutManifest" =>
        \E m \in Events :
          /\ m < k
          /\ trace[m].op = "Manifest"
          /\ trace[m].ok
          /\ trace[k].a.manifest = [trace[m].a.result EXCEPT !.Name = destArgs.Repository]
          /\ trace[k].a.manifest.FSLayers = trace[m].a.result.FSLayers
          /\ trace[k].a.repo = destArgs.Repository

\* a manifest of two different layers was published under another repository name
C5_Witness ==
    \E k \in Events :
      /\ trace[k].op = "PutManifest"
      /\ Len(trace[k].a.manifest.FSLayers) = 2
      /\ trace[k].a.manifest.FSLayers[1] # trace[k].a.manifest.FSLayers[2]
      /\ trace[k].a.manifest.Name # srcArgs.Repository

\* every stage succeeded: no call failed other than a temp file removal, nothing
\* panicked, and the manifest was published
EveryStageSucceeded ==
    /\ ~panicking
    /\ \A k \in Events : trace[k].ok \/ trace[k].op = "Remove"
    /\ \E k \in Events : trace[k].op = "PutManifest" /\ trace[k].ok

\* C6: the process exits with status 0 exactly when every stage succeeded, and
\* with a nonzero status when any stage failed, a stage ended by a panic included.
C6_ExitStatusTellsOutcome ==
    Exited => (ExitStatus(exitCode) = 0 <=> EveryStageSucceeded)

\* C7: with an empty effective source or destination repository name the run
\* prints the configuration error and exits nonzero without any call to a
\* registry, to the cloud API or to the file system.
C7_MissingRepoStopsBeforeNetwork ==
    (pc # "defaults" /\ (srcArgs.Repository = "" \/ destArgs.Repository = "")) =>
      /\ pc \in {"checkRepos", "deferred", "exited"}
      /\ \A k \in Events : trace[k].op \in {"Printf", "Exit"}
      /\ pc # "checkRepos" =>
           /\ exitCode # 0
           /\ Printed(RequiredRepoMissing(srcArgs.Repository, destArgs.Repository))
      /\ Exited => ExitStatus(exitCode) # 0

\* the destination repository name alone is missing and the process has exited
C7_Witness ==
    /\ Exited
    /\ srcArgs.Repository # ""
    /\ destArgs.Repository = ""

\* C8: every call made for the destination follows a successful ping of the
\* source, and after a failed ping of the destination the run only prints the
\* connection error and exits nonzero: no Manifest, HasLayer, DownloadLayer,
\* UploadLayer or PutManifest call.
C8_SourceFirstThenDestination ==
    /\ \A k \in Events :
         trace[k].hub = "dest" =>
           \E j \in 1..(k - 1) : IsCall(j, "Ping", "src") /\ trace[j].ok
    /\ \A k \in Events :
         (IsCall(k, "Ping", "dest") /\ ~trace[k].ok) =>
           /\ \A g \in (k + 1)..Len(trace) : trace[g].op \in {"Printf", "Exit"}
           /\ \A g \in Events : trace[g].op \notin LayerOps \cup {"Manifest", "PutManifest"}
           /\ pc \in {"connected", "deferred", "exited"}
           /\ pc # "connected" =>
                /\ exitCode # 0
                /\ Printed("Failed to establish a connection to the destination registry.")
           /\ Exited => ExitStatus(exitCode) # 0

\* the ping of the destination failed and the process has exited
C8_Witness ==
    /\ Exited
    /\ \E k \in Events : IsCall(k, "Ping", "dest") /\ ~trace[k].ok

\* the part of a decoded token before its first ":"
BeforeFirstColon(s) ==
    LET i == CHOOSE j \in 1..Len(s) : s[j] = Colon /\ \A h \in 1..(j - 1) : s[h] # Colon
    IN  SubSeq(s, 1, i - 1)

\* everything after the first ":" of a decoded token
AfterFirstColon(s) ==
    LET i == CHOOSE j \in 1..Len(s) : s[j] = Colon /\ \A h \in 1..(j - 1) : s[h] # Colon
    IN  SubSeq(s, i + 1, Len(s))

\* C9: for a URL matching the managed-registry pattern the client is built with
\* the username before the first ":" of the decoded token, with everything after
\* that first ":" as password, and against the proxy endpoint of the response.
C9_CredentialsSplitOnFirstColon ==
    (pc = "ping" /\ FindAllStringSubmatch(conn.origUrl).matched) =>
      LET e == trace[Len(trace)]
      IN  /\ e.op = "New"
          /\ e.a.username = BeforeFirstColon(conn.decoded)
          /\ e.a.password = AfterFirstColon(conn.decoded)
          /\ e.a.url = conn.resp.AuthorizationData[1].ProxyEndpoint.val

\* the registry URL given for a side
UrlOf(hub) == IF hub = "src" THEN srcArgs.RegistryURL ELSE destArgs.RegistryURL

\* C10: for a URL that does not match the managed-registry pattern no cloud
\* session is opened and no authorization token requested, and the client is
\* built with the URL as given and empty username and password.
C10_PlainUrlPassedThrough ==
    \A k \in Events :
      (trace[k].hub \in {"src", "dest"} /\ ~FindAllStringSubmatch(UrlOf(trace[k].hub)).matched) =>
        /\ trace[k].op \notin {"NewSession", "GetAuthorizationToken"}
        /\ trace[k].op = "New" =>
             /\ trace[k].a.url = UrlOf(trace[k].hub)
             /\ trace[k].a.username = <<>>
             /\ trace[k].a.password = <<>>

\* a client was built for a URL one digit short of the pattern
C10_Witness ==
    \E k \in Events :
      /\ trace[k].op = "New"
      /\ trace[k].a.url = UrlElevenDigits

\* the connection being made got a token that decodes to a text without ":"
TokenWithoutColon ==
    /\ TokenReadable(conn.resp)
    /\ LET d == DecodeString(conn.resp.AuthorizationData[1].AuthorizationToken.val)
       IN  ~d.err /\ \A i \in 1..Len(d.bytes) : d.bytes[i] # Colon

ConnectionFailureMessage ==
    IF role = "src" THEN "Failed to establish a connection to the source registry."
    ELSE "Failed to establish a connection to the destination registry."

\* C11: when the decoded token holds no ":", connectToRegistry returns an error to
\* main, which prints the connection failure and exits nonzero; no client is
\* built and no Ping made for that registry.
C11_TokenWithoutColonIsAnError ==
    (TokenWithoutColon /\ pc \notin {"decode", "split"}) =>
      /\ connErr.set
      /\ ~panicking
      /\ \A k \in Events : trace[k].hub = role => trace[k].op \notin {"New", "Ping"}
      /\ pc \in {"deferred", "exited"} => Printed(ConnectionFailureMessage)
      /\ Exited => ExitStatus(exitCode) # 0

\* C12: the manifest fetched from the source is never mutated: once fetched, and
\* after the destination manifest has been built and renamed, its name, tag and
\* layer sequence are those the Manifest call returned.
C12_SourceManifestUnchanged ==
    manifest.set =>
      \E m \in Events :
        /\ trace[m].op = "Manifest"
        /\ trace[m].ok
        /\ manifest.Name = trace[m].a.result.Name
        /\ manifest.Tag = trace[m].a.result.Tag
        /\ manifest.FSLayers = trace[m].a.result.FSLayers

\* the destination manifest has been built under another name and published
C12_Witness ==
    /\ destManifest.set
    /\ destManifest.Name # manifest.Name
    /\ Len(manifest.FSLayers) = 2
    /\ \E k \in Events : trace[k].op = "PutManifest"

\* the download, copy, re-open and upload of the call opened at h all succeeded
\* before event r
TransferSucceeded(h, r) ==
    \A op \in {"DownloadLayer", "Copy", "Open", "UploadLayer"} :
      \E u \in h..r : trace[u].op = op /\ trace[u].ok

\* C13: the result of migrateLayer is that of the transfer, whether the removal of
\* the temp file succeeded or failed, and after a failed removal alone the run
\* goes on to the next layer or to the manifest publish.
C13_RemovalFailureAbsorbed ==
    \A j \in Returns :
      \A r \in CallStart(j)..j :
        trace[r].op = "Remove" =>
          /\ trace[j].ok <=> TransferSucceeded(CallStart(j), r)
          /\ (trace[j].ok /\ ~trace[r].ok) =>
               IF j = Len(trace)
               THEN exitCode = 0 /\ pc \in {"loop", "hasLayer", "buildManifest", "putManifest"}
               ELSE trace[j + 1].op \in {"HasLayer", "PutManifest"}

\* a removal failed after a successful transfer and the manifest was published
C13_Witness ==
    /\ \E r \in Events : trace[r].op = "Remove" /\ ~trace[r].ok
    /\ \A j \in Returns : trace[j].ok
    /\ \E k \in Events : trace[k].op = "PutManifest" /\ trace[k].ok

\* ------------------------------------------------------- running it again
\* the same command line is run again after a fully successful run: a new
\* process, the two registries and the temp directory as the last run left them
Rerun ==
    /\ Exited
    /\ EveryStageSucceeded
    /\ Cardinality({k \in Events : trace[k].op = "Start"}) < MaxRuns - 1
    /\ pc' = "defaults"
    /\ exitCode' = 0
    /\ panicking' = FALSE
    /\ role' = "src"
    /\ conn' = NoConn
    /\ connErr' = NoErr
    /\ srcHub' = NoHub
    /\ destHub' = NoHub
    /\ manifest' = NoManifest
    /\ destManifest' = NoManifest
    /\ layerIdx' = 0
    /\ mig' = NoMig
    /\ handles' = {}
    /\ destAtStart' = destLayers
    /\ Log(Ev("Start", "os", [destLayers |-> destLayers], TRUE))
    /\ UNCHANGED <<srcArgs, destArgs, repoArg, tagArg, srcImage, destLayers, tmpFiles>>

NextRerun ==
    \/ Next
    \/ Rerun

SpecRerun == Init /\ [][NextRerun]_vars

\* the event that started the current run, 0 for the first run
RunStart ==
    IF \E k \in Events : trace[k].op = "Start"
    THEN CHOOSE k \in Events : /\ trace[k].op = "Start"
                               /\ \A g \in (k + 1)..Len(trace) : trace[g].op # "Start"
    ELSE 0

RunEvents == (RunStart + 1)..Len(trace)

\* the current run has exited and every call it made succeeded
RunSucceeded ==
    /\ Exited
    /\ ~panicking
    /\ \A k \in RunEvents : trace[k].ok
    /\ \E k \in RunEvents : trace[k].op = "PutManifest"

RunCalls(op, d) == {k \in RunEvents : trace[k].op = op /\ trace[k].a.digest = d}

Range(q) == {q[i] : i \in 1..Len(q)}

\* C14: a run in which every call succeeds downloads and uploads exactly the
\* distinct digests of the manifest that the destination lacked at the start, each
\* once however often it occurs in the manifest, and none that was present; a run
\* after a fully successful run creates no temp file, downloads and uploads nothing.
C14_TransfersExactlyTheMissing ==
    /\ RunSucceeded =>
         \A d \in Digests :
           LET n == IF d \in Range(manifest.FSLayers) \ destAtStart THEN 1 ELSE 0
           IN  /\ Cardinality(RunCalls("DownloadLayer", d)) = n
               /\ Cardinality(RunCalls("UploadLayer", d)) = n
    /\ RunStart > 0 =>
         \A k \in RunEvents : trace[k].op \notin {"TempFile", "DownloadLayer", "UploadLayer"}

\* the second run of an image that names one digest twice has succeeded, after a
\* first run that uploaded it
C14_Witness ==
    /\ RunSucceeded
    /\ RunStart > 0
    /\ Len(manifest.FSLayers) = 2
    /\ manifest.FSLayers[1] = manifest.FSLayers[2]
    /\ \E k \in 1..RunStart : trace[k].op = "UploadLayer"

\* the events of the migrateLayer call in progress
CurrentCall ==
    {k \in Events : \A g \in k..Len(trace) : trace[g].op # "migrateLayer"}

\* C15: an upload starts only after the download stream was copied whole to the
\* temp file, closed, and file.Sync() has returned, and it reads through a handle
\* other than the write handle; the HasLayer check of a layer starts only after
\* migrateLayer has returned for every earlier layer, in manifest order.
C15_NoOverlap ==
    /\ pc = "upload" =>
         /\ mig.synced
         /\ \E c \in CurrentCall : trace[c].op = "Copy" /\ trace[c].ok
         /\ [kind |-> "srcStream", file |-> mig.tempFile] \notin handles
         /\ [kind |-> "tempRead", file |-> mig.tempFile] \in handles
         /\ [kind |-> "tempWrite", file |-> mig.tempFile] \in handles
    /\ \A k \in Events :
         trace[k].op = "HasLayer" =>
           LET before == Cardinality({h \in 1..(k - 1) : trace[h].op = "HasLayer"})
               back   == Cardinality({j \in 1..(k - 1) : trace[j].op = "migrateLayer"})
           IN  /\ back = before
               /\ trace[k - 1].op \in {"Manifest", "migrateLayer"}
               /\ trace[k].a.digest = manifest.FSLayers[before + 1]

\* the second layer is about to be uploaded after the first was uploaded
C15_Witness ==
    /\ pc = "upload"
    /\ layerIdx = 2
    /\ \E k \in Events : trace[k].op = "UploadLayer" /\ trace[k].ok

\* C16: every endpoint handed to registry.New has a username and a password that
\* are both empty or both non-empty.
C16_CredentialsBothOrNeither ==
    \A k \in Events :
      trace[k].op = "New" =>
        (trace[k].a.username = <<>> <=> trace[k].a.password = <<>>)

\* ---------------------------------------------------------------- claim C17
\* the values a layer error lets its reader see: the ones the program formats into
\* the message and the ones the text of the wrapped error names
ErrorCarries(err) == Range(err.ctx) \cup Range(err.cause.names)

LayerErrorKinds == {"HasLayer", "DownloadLayer", "UploadLayer"}

\* C17: every error migrateLayer returns for a failed existence check, download or
\* upload carries the digest of the layer that failed.
C17_LayerErrorNamesDigest ==
    \A j \in Returns :
      (trace[j].a.err.set /\ trace[j].a.err.cause.op \in LayerErrorKinds)
        => trace[j].a.digest \in ErrorCarries(trace[j].a.err)

\* ---------------------------------------------------------------- claim C18
\* control is in main, outside every migrateLayer call
OutsideMigrateLayer == pc \in {"loop", "buildManifest", "putManifest", "deferred"}

\* C18: whenever migrateLayer has returned, on any exit path and after any number
\* of layers, no handle it opened (write handle of the temp file, download stream,
\* read handle of the temp file) is still open.
C18_HandlesClosedOnReturn ==
    (OutsideMigrateLayer /\ Returns # {}) => handles = {}

\* ---------------------------------------------------------------- claim C19
\* C19: after a successful authorization-token request, whatever the response
\* holds, connectToRegistry returns a connection or an error and never panics.
C19_ConnectNeverPanics ==
    \A k \in Events :
      (trace[k].op = "GetAuthorizationToken" /\ trace[k].ok) => ~panicking

\* ---------------------------------------------------------------- claim C20
\* C20: whenever moveLayerUsingFile returns success, the bytes it passed to
\* UploadLayer under a digest are the whole blob the DownloadLayer stream produced
\* for that digest, also when file.Sync() or the close of the stream failed.
C20_UploadedBytesAreTheDownload ==
    \A j \in Returns :
      \A u \in CallStart(j)..j :
        (trace[j].ok /\ trace[u].op = "UploadLayer")
          => trace[u].a.data = Blob(trace[u].a.digest)

====
